---- MODULE Spec2Model ----
(***************************************************************************)
(* Model of data_generation/generate.py: backend probing, resume offset,   *)
(* thread-pool dispatch, the per-sample generate_data unit (chat and       *)
(* completion mode) and the append to the shared output file, over a       *)
(* bounded number of consecutive runs of the script on the same input and  *)
(* the same output path.                                                   *)
(***************************************************************************)
EXTENDS Integers, Sequences, FiniteSets, TLC

(* ------------------------------ bounds --------------------------------- *)
NumSamples == 3      \* len(data)
MaxRuns == 2         \* consecutive runs of the script that are explored
NumThreads == 2      \* args.num_threads

(* ------------------------- program constants --------------------------- *)
FirstPort == 8000    \* range(8000, 8002)
EndPort == 8002

VARIABLES
    data,            \* json.load(open(args.data_path)): sequence of Samples
    chat,            \* args.chat
    observe,         \* the backend's calls and answers are logged per unit
    sameAsFilePath,  \* args.output_path is the hard-coded file_path
    dirExists,       \* the parent directory of args.output_path exists
    run,             \* number of the current run of the script
    pc,              \* position of the main thread
    port,            \* loop variable of the probing loop
    probed,          \* outcome of every probe of this run, in probing order
    api_base_pool,   \* live pool
    outExists,       \* Path(args.output_path).exists()
    outFile,         \* content of args.output_path: tokens, in file order
    existedAtStart,  \* outExists when this run started
    linesAtStart,    \* lines of args.output_path when this run started
    start_idx,       \* resume offset
    futures,         \* indices submitted to the executor, in submit order
    unit,            \* one generate_data invocation per input index
    exitCode         \* exit code of the process, once pc = "exited"

vars == <<data, chat, observe, sameAsFilePath, dirExists, run, pc, port, probed,
          api_base_pool, outExists, outFile, existedAtStart, linesAtStart,
          start_idx, futures, unit, exitCode>>

(* ------------------------------ text ----------------------------------- *)
\* Texts are sequences of one-character strings.
Chr(s) == <<s>>

RECURSIVE LStrip(_)
LStrip(s) == IF s # <<>> /\ Head(s) = " " THEN LStrip(Tail(s)) ELSE s

RECURSIVE RStrip(_)
RStrip(s) ==
    IF s # <<>> /\ s[Len(s)] = " " THEN RStrip(SubSeq(s, 1, Len(s) - 1)) ELSE s

\* Variant: the text is kept as generated.
NoStrip(s) == s

\* str.strip()
Strip(s) == RStrip(LStrip(s))

(* ----------------------------- samples --------------------------------- *)
\* A turn is a dict; the script reads m["from"], m["value"] and, for a
\* leading system turn, m["text"].
Human(v) == [from |-> "human", value |-> v]
Gpt(v) == [from |-> "gpt", value |-> v]
System(t) == [from |-> "system", text |-> t]

HasKey(m, k) == k \in DOMAIN m

SamplePlain == <<Human(Chr("p")), Gpt(Chr("o"))>>
SampleSys == <<System(Chr("s")), Human(Chr("q")), Gpt(Chr("o")),
               Human(Chr("r")), Gpt(Chr("o"))>>
SampleBad == <<Gpt(Chr("o")), Human(Chr("q"))>>
SampleEmpty == <<>>

Shapes == <<SamplePlain, SampleSys, SampleBad, SampleEmpty>>

\* Input files: NumSamples Samples, cycling through the shapes from a start.
Dataset(off) ==
    [i \in 1..NumSamples |-> Shapes[((i - 1 + off) % Len(Shapes)) + 1]]

Datasets == {Dataset(0), Dataset(1)}

(* --------------------------- output file ------------------------------- *)
\* The newline that ends a line.
NL == [kind |-> "nl"]
IsNL(t) == t.kind = "nl"

\* json.dumps(record): one token. src and byRun are not part of the text:
\* they name the input index and the run the record was generated by.
ChatRecord(idx, r, output_conv) ==
    [kind |-> "chat", src |-> idx, byRun |-> r, conversations |-> output_conv]
TextRecord(idx, r, text) ==
    [kind |-> "text", src |-> idx, byRun |-> r, text |-> text]

\* Variant: the line is written a second time.
WriteCallsTwice(rec) == << <<rec, NL>>, <<rec, NL>> >>

\* Variant: the record and the newline are written by two writes.
WriteCallsSplit(rec) == << <<rec>>, <<NL>> >>

\* f.write(json.dumps(rec) + "\n") on a file opened in append mode, closed
\* right after: the text reaches the file in one write of record and newline.
WriteCalls(rec) == << <<rec, NL>> >>

\* Variant: open(args.output_path, "w").
Truncated(f, text) == text

\* open(args.output_path, "a"): what is written goes after what is there.
Appended(f, text) == f \o text

RECURSIVE CountNL(_)
CountNL(f) ==
    IF f = <<>> THEN 0
    ELSE (IF IsNL(Head(f)) THEN 1 ELSE 0) + CountNL(Tail(f))

\* sum(1 for _ in f): iterating a file yields one item per newline, and one
\* more for trailing text that has no newline.
LineCount(f) ==
    CountNL(f) + (IF f # <<>> /\ ~IsNL(f[Len(f)]) THEN 1 ELSE 0)

(* --------------------------- generate_data ----------------------------- *)
NoUnit ==
    [pc |-> "none", idx |-> 0, base_url |-> 0, messages |-> <<>>, k |-> 0,
     converted |-> <<>>, output_conv |-> <<>>, prompt |-> <<>>,
     pending |-> <<>>, closed |-> FALSE, calls |-> 0, wrote |-> 0,
     seen |-> <<>>]

Indices == 0..(NumSamples - 1)

Finished(u) == u.pc \in {"done", "raised"}
Executing(u) == u.pc \notin {"none", "queued", "done", "raised"}

\* api_base_pool[idx % len(api_base_pool)]; the pool is not empty.
BaseUrlFor(pool, idx) == pool[(idx % Len(pool)) + 1]

\* The backend's answers to one call.
ListOutcomes == {"error", "ok"}
ReplyTexts == {<<"a">>, <<" ", "a", " ">>}
ChatOutcomes ==
    {[kind |-> "error"]} \cup
    {[kind |-> "length", text |-> t] : t \in ReplyTexts} \cup
    {[kind |-> "stop", text |-> t] : t \in ReplyTexts}
CompletionOutcomes ==
    {[kind |-> "error"]} \cup
    {[kind |-> fr, text |-> t] : fr \in {"stop", "length"}, t \in ReplyTexts}

\* get_conversation_template(model_name) ... conv.get_prompt(): the template
\* of the model with the system message and the first turn substituted.
DefaultSystemMessage == Chr("d")
GetPrompt(system_message, first_value) ==
    <<"<s>">> \o system_message \o <<"<u>">> \o first_value \o <<"<a>">>

\* What the backend was sent and what it answered, noted when observed.
Logged(u, call, kind, text, sent) ==
    IF observe
    THEN [u EXCEPT !.seen = Append(@, [call |-> call, kind |-> kind,
                                       text |-> text, sent |-> sent])]
    ELSE u

ReplyText(outcome) == IF outcome.kind = "error" THEN <<>> ELSE outcome.text

\* messages[::2]
UserSlots(messages) == (Len(messages) + 1) \div 2
UserSlot(messages, k) == messages[2 * k + 1]

\* Variant: the record is written whether it holds a turn or not.
AfterChatLoopAlways(u, i) ==
    [u EXCEPT !.pc = "write",
              !.pending = WriteCalls(ChatRecord(i, run, u.output_conv))]

\* Lines 130-135: after the chat loop.
AfterChatLoop(u, i) ==
    IF u.output_conv = <<>>
    THEN [u EXCEPT !.pc = "done"]
    ELSE [u EXCEPT !.pc = "write",
                   !.pending = WriteCalls(ChatRecord(i, run, u.output_conv))]

\* Variant: a failed call is issued again while the unit has made no more
\* calls than its Sample has user positions.
OnCallErrorRetry(u, i) ==
    IF u.calls <= UserSlots(u.messages)
    THEN [u EXCEPT !.pc = "chat"]
    ELSE AfterChatLoop(u, i)

\* Variant: a failed call returns at once instead of leaving the loop.
OnCallErrorReturn(u, i) == [u EXCEPT !.pc = "done"]

\* Lines 119-120: except Exception: break
OnCallError(u, i) == AfterChatLoop(u, i)

\* Variant: a wrong speaker leaves the loop (break) instead of returning.
OnWrongSpeakerBreak(u, i) == AfterChatLoop(u, i)

\* Lines 108-109: if m["from"] != "human": return
OnWrongSpeaker(u, i) == [u EXCEPT !.pc = "done"]

\* Variant: the finish reason is not looked at.
IsTruncatedNever(outcome) == FALSE

\* Line 123: choice.finish_reason == "length"
IsTruncated(outcome) == outcome.kind = "length"

\* Variant: the model listing is tried again after a failure.
OnListErrorRetry(u) == [u EXCEPT !.pc = "list"]

\* Lines 93-94: except Exception: print(...); return
OnListError(u) == [u EXCEPT !.pc = "done"]

\* Variant: a completion cut off by the length limit is dropped.
CompletionAcceptedStop(outcome) == outcome.kind = "stop"

\* Lines 148-162: the completion call returned, whatever its finish reason.
CompletionAccepted(outcome) == outcome.kind # "error"

\* Variant: the user turn is recorded without the generated answer.
ExtendedUserOnly(output_conv, m, assistant_answer) == Append(output_conv, m)

\* Line 127: output_conv.extend([m, {"from": "gpt", "value": ...}])
Extended(output_conv, m, assistant_answer) ==
    output_conv \o <<m, Gpt(assistant_answer)>>

\* Lines 98-105, then the loop header of line 107.
EnterChat(u, i) ==
    LET messages == u.messages IN
    IF messages # <<>> /\ messages[1]["from"] = "system"
    THEN IF ~HasKey(messages[1], "text")
         THEN [u EXCEPT !.pc = "raised"]
         ELSE LET v == [u EXCEPT
                          !.converted = <<[role |-> "system",
                                           content |-> messages[1]["text"]]>>,
                          !.output_conv = <<messages[1]>>,
                          !.messages = Tail(messages)]
              IN  IF UserSlots(v.messages) = 0 THEN AfterChatLoop(v, i)
                  ELSE [v EXCEPT !.pc = "chat"]
    ELSE IF UserSlots(messages) = 0 THEN AfterChatLoop(u, i)
         ELSE [u EXCEPT !.pc = "chat"]

\* Variant: the prompt is rendered from the last turn of the Sample.
EnterCompletionLastTurn(u) ==
    LET messages == u.messages IN
    IF messages = <<>> \/ ~HasKey(messages[Len(messages)], "value")
    THEN [u EXCEPT !.pc = "raised"]
    ELSE [u EXCEPT !.pc = "completion",
                   !.prompt = GetPrompt(DefaultSystemMessage,
                                        messages[Len(messages)]["value"])]

\* Lines 138-146: the prompt of completion mode.
EnterCompletion(u) ==
    LET messages == u.messages IN
    IF messages = <<>> THEN [u EXCEPT !.pc = "raised"]
    ELSE IF messages[1]["from"] = "system"
    THEN IF ~HasKey(messages[1], "text") \/ Len(messages) < 2
            \/ ~HasKey(messages[2], "value")
         THEN [u EXCEPT !.pc = "raised"]
         ELSE [u EXCEPT !.pc = "completion",
                        !.messages = Tail(messages),
                        !.prompt = GetPrompt(messages[1]["text"],
                                             messages[2]["value"])]
    ELSE IF ~HasKey(messages[1], "value")
         THEN [u EXCEPT !.pc = "raised"]
         ELSE [u EXCEPT !.pc = "completion",
                        !.prompt = GetPrompt(DefaultSystemMessage,
                                             messages[1]["value"])]

(* ------------------------------ state ---------------------------------- *)
Init ==
    /\ data \in Datasets
    /\ chat \in BOOLEAN
    /\ observe = FALSE
    /\ sameAsFilePath \in BOOLEAN
    /\ dirExists \in BOOLEAN
    /\ outExists \in BOOLEAN
    /\ outExists => dirExists
    /\ outFile = <<>>
    /\ existedAtStart = outExists
    /\ linesAtStart = 0
    /\ run = 1
    /\ pc = "probe"
    /\ port = FirstPort
    /\ probed = <<>>
    /\ api_base_pool = <<>>
    /\ start_idx = 0
    /\ futures = <<>>
    /\ unit = [i \in Indices |-> NoUnit]
    /\ exitCode = 0

\* Samples at the last input position of a resumed run.
SampleSysOnly == <<System(Chr("s"))>>
SampleTwo == <<Human(Chr("q")), Gpt(Chr("o")), Human(Chr("r")), Gpt(Chr("o"))>>
SampleBadSecond == <<Human(Chr("q")), Gpt(Chr("o")), Gpt(Chr("x")),
                     Human(Chr("r"))>>
SampleSysBad == <<System(Chr("s")), Gpt(Chr("o"))>>
SampleSysNoText == <<[from |-> "system", value |-> Chr("s")],
                     Human(Chr("q"))>>
SampleUserOnly == <<Human(Chr("q"))>>
SampleNoValue == <<[from |-> "human", text |-> Chr("q")]>>

UnitSamples ==
    {SamplePlain, SampleSys, SampleBad, SampleEmpty, SampleSysOnly, SampleTwo,
     SampleBadSecond, SampleSysBad, SampleSysNoText, SampleUserOnly,
     SampleNoValue}

\* The line an earlier run wrote for a SamplePlain at index j.
OldLine(j, isChat) ==
    <<IF isChat
      THEN ChatRecord(j, 0, <<Human(Chr("p")), Gpt(Chr("a"))>>)
      ELSE TextRecord(j, 0,
               GetPrompt(DefaultSystemMessage, Chr("p")) \o Chr("a")),
      NL>>

RECURSIVE OldLines(_, _)
OldLines(n, isChat) ==
    IF n = 0 THEN <<>>
    ELSE OldLines(n - 1, isChat) \o OldLine(n - 1, isChat)

\* A run that resumes on an output file holding a line for every Sample but
\* the last one, with the backend observed.
UnitInit ==
    /\ \E s \in UnitSamples :
          data = [j \in 1..NumSamples |->
                    IF j < NumSamples THEN SamplePlain ELSE s]
    /\ chat \in BOOLEAN
    /\ observe = TRUE
    /\ sameAsFilePath \in BOOLEAN
    /\ dirExists = TRUE
    /\ outExists = TRUE
    /\ outFile = OldLines(NumSamples - 1, chat)
    /\ existedAtStart = TRUE
    /\ linesAtStart = NumSamples - 1
    /\ run = 1
    /\ pc = "probe"
    /\ port = FirstPort
    /\ probed = <<>>
    /\ api_base_pool = <<>>
    /\ start_idx = 0
    /\ futures = <<>>
    /\ unit = [i \in Indices |-> NoUnit]
    /\ exitCode = 0

\* Samples at the last two input positions: some agree on the leading system
\* turn and the turn after it and differ later, some differ there.
SampleSysShort == <<System(Chr("s")), Human(Chr("q"))>>
SampleSysOther == <<System(Chr("t")), Human(Chr("q")), Gpt(Chr("o"))>>

PairSamples ==
    {SampleSys, SampleSysShort, SampleSysOther, SampleTwo, SampleUserOnly}

\* A run that resumes on an output file holding a line for every Sample but
\* the last two, with the backend observed in completion mode.
PairInit ==
    /\ \E s, t \in PairSamples :
          data = [j \in 1..NumSamples |->
                    IF j < NumSamples - 1 THEN SamplePlain
                    ELSE IF j = NumSamples - 1 THEN s ELSE t]
    /\ chat \in BOOLEAN
    /\ observe = ~chat
    /\ sameAsFilePath = FALSE
    /\ dirExists = TRUE
    /\ outExists = TRUE
    /\ outFile = OldLines(NumSamples - 2, chat)
    /\ existedAtStart = TRUE
    /\ linesAtStart = NumSamples - 2
    /\ run = 1
    /\ pc = "probe"
    /\ port = FirstPort
    /\ probed = <<>>
    /\ api_base_pool = <<>>
    /\ start_idx = 0
    /\ futures = <<>>
    /\ unit = [i \in Indices |-> NoUnit]
    /\ exitCode = 0

(* ---------------------------- main thread ------------------------------ *)
\* Variant: a failed probe ends the probing loop (break instead of continue).
ProbeBreak(outcome) ==
    /\ pc = "probe"
    /\ port < EndPort
    /\ probed' = Append(probed, outcome)
    /\ api_base_pool' = IF outcome = "models"
                        THEN Append(api_base_pool, port)
                        ELSE api_base_pool
    /\ port' = IF outcome = "fail" THEN port ELSE port + 1
    /\ pc' = IF outcome # "fail" /\ port + 1 < EndPort
             THEN "probe" ELSE "resume"
    /\ UNCHANGED <<data, chat, observe,
                   sameAsFilePath, dirExists, run, outExists,
                   outFile, existedAtStart, linesAtStart, start_idx, futures,
                   unit, exitCode>>

\* Lines 49-65: one iteration of the probing loop.
Probe(outcome) ==
    /\ pc = "probe"
    /\ port < EndPort
    /\ probed' = Append(probed, outcome)
    /\ api_base_pool' = IF outcome = "models"
                        THEN Append(api_base_pool, port)
                        ELSE api_base_pool
    /\ port' = port + 1
    /\ pc' = IF port + 1 < EndPort THEN "probe" ELSE "resume"
    /\ UNCHANGED <<data, chat, observe,
                   sameAsFilePath, dirExists, run, outExists,
                   outFile, existedAtStart, linesAtStart, start_idx, futures, unit, exitCode>>

\* Variant: every element of data is submitted (data instead of
\* data[start_idx:]).
RemainingAll(d, start) == [j \in 1..Len(d) |-> j - 1]

\* data[start_idx:]: the input positions (from 0) of its elements, in order.
Remaining(d, start) == [j \in 1..(IF Len(d) > start THEN Len(d) - start ELSE 0)
                          |-> j - 1 + start]

\* Variant: the position in data[start_idx:] is passed as idx.
SubmitIdxRelative(i, start) == i

\* The idx argument of ex.submit(generate_data, ..., i + start_idx).
SubmitIdx(i, start) == i + start

\* Variant: the existing output is not counted.
StartIdxZero(exists, f) == 0

\* if Path(args.output_path).exists(): start_idx = sum(1 for _ in f)
StartIdx(exists, f) == IF exists THEN LineCount(f) ELSE 0

\* Lines 175-184: the hard-coded file_path is created when missing, then the
\* lines of args.output_path are counted.
Resume ==
    /\ pc = "resume"
    /\ LET touched == sameAsFilePath /\ ~outExists
           exists == outExists \/ touched
       IN  /\ outExists' = exists
           /\ dirExists' = (dirExists \/ touched)
           /\ start_idx' = StartIdx(exists, outFile)
    /\ pc' = "submit"
    /\ UNCHANGED <<data, chat, observe,
                   sameAsFilePath, run, port, probed,
                   api_base_pool, outFile, existedAtStart, linesAtStart, futures, unit,
                   exitCode>>

\* Lines 190-194: one ex.submit of the list comprehension.
Submit ==
    /\ pc = "submit"
    /\ LET todo == Remaining(data, start_idx)
       IN  IF Len(futures) < Len(todo)
           THEN LET at == todo[Len(futures) + 1]
                IN  /\ futures' = Append(futures, at)
                    /\ unit' = [unit EXCEPT ![at] =
                                  [NoUnit EXCEPT
                                     !.pc = "queued",
                                     !.messages = data[at + 1],
                                     !.idx = SubmitIdx(Len(futures),
                                                       start_idx)]]
                    /\ pc' = "submit"
           ELSE /\ pc' = "wait"
                /\ UNCHANGED <<futures, unit>>
    /\ UNCHANGED <<data, chat, observe,
                   sameAsFilePath, dirExists, run, port, probed,
                   api_base_pool, outExists, outFile, existedAtStart,
                   linesAtStart, start_idx, exitCode>>

\* Variant: the script goes on without waiting for the units.
NoBarrier(u, fs) == TRUE

\* as_completed(futures) has yielded every future and the executor has
\* shut down.
AllFinished(u, fs) == \A n \in 1..Len(fs) : Finished(u[fs[n]])

\* Variant: the loop body takes future.result(), which re-raises.
ExitCodeWithResult(u, fs) ==
    IF \E n \in 1..Len(fs) : u[fs[n]].pc = "raised" THEN 1 ELSE 0

\* Line 195-196: the loop body is pass; no future's result() is taken.
ExitCodeAfterWait(u, fs) == 0

\* Lines 195-196 and the end of the with block, then the end of the script.
Wait ==
    /\ pc = "wait"
    /\ AllFinished(unit, futures)
    /\ pc' = "exited"
    /\ exitCode' = ExitCodeAfterWait(unit, futures)
    /\ UNCHANGED <<data, chat, observe,
                   sameAsFilePath, dirExists, run, port, probed,
                   api_base_pool, outExists, outFile, existedAtStart,
                   linesAtStart, start_idx, futures, unit>>

(* ------------------------------- units --------------------------------- *)
Running == pc \in {"submit", "wait"}

\* The executor's work queue is first-in first-out and at most
\* args.num_threads workers take work from it.
NextQueued(i) ==
    /\ unit[i].pc = "queued"
    /\ \A j \in Indices : unit[j].pc = "queued" => i <= j
\* Variant: the executor starts a thread for every submitted unit.
WorkerAlwaysFree == TRUE

WorkerFree ==
    Cardinality({j \in Indices : Executing(unit[j])}) < NumThreads

\* Lines 88-89: a worker takes the unit and picks its backend.
UnitStart(i) ==
    /\ Running
    /\ NextQueued(i)
    /\ WorkerFree
    /\ unit' = [unit EXCEPT ![i] =
                  IF Len(api_base_pool) = 0
                  THEN [@ EXCEPT !.pc = "raised"]
                  ELSE [@ EXCEPT !.pc = "list",
                                 !.base_url = BaseUrlFor(api_base_pool,
                                                        unit[i].idx)]]
    /\ UNCHANGED <<data, chat, observe,
                   sameAsFilePath, dirExists, run, pc, port,
                   probed, api_base_pool, outExists, outFile, existedAtStart,
                   linesAtStart, start_idx, futures, exitCode>>

\* Lines 91-94, then the code up to the first generation call.
ListModels(i, outcome) ==
    /\ Running
    /\ unit[i].pc = "list"
    /\ unit' = [unit EXCEPT ![i] =
                  LET u == Logged(@, "list", outcome, <<>>, <<>>)
                  IN  IF outcome = "error" THEN OnListError(u)
                      ELSE IF chat THEN EnterChat(u, i)
                      ELSE EnterCompletion(u)]
    /\ UNCHANGED <<data, chat, observe,
                   sameAsFilePath, dirExists, run, pc, port,
                   probed, api_base_pool, outExists, outFile, existedAtStart,
                   linesAtStart, start_idx, futures, exitCode>>

\* Lines 107-128: one iteration of the chat loop.
ChatIteration(u, i, outcome) ==
    LET m == UserSlot(u.messages, u.k)
    IN  IF m["from"] # "human" THEN OnWrongSpeaker(u, i)
        ELSE IF ~HasKey(m, "value") THEN [u EXCEPT !.pc = "raised"]
        ELSE
          LET context == Append(u.converted, [role |-> "user",
                                              content |-> m["value"]])
              sent == Logged([u EXCEPT !.converted = context,
                                       !.calls = @ + 1],
                             "chat", outcome.kind, ReplyText(outcome), context)
          IN  IF outcome.kind = "error" THEN OnCallError(sent, i)
              ELSE IF IsTruncated(outcome) THEN AfterChatLoop(sent, i)
              ELSE
                LET assistant_answer == Strip(outcome.text)
                    got == [sent EXCEPT
                              !.output_conv = Extended(@, m, assistant_answer),
                              !.converted = Append(@,
                                  [role |-> "assistant",
                                   content |-> assistant_answer]),
                              !.k = @ + 1]
                IN  IF got.k = UserSlots(got.messages)
                    THEN AfterChatLoop(got, i)
                    ELSE got

ChatTurn(i, outcome) ==
    /\ Running
    /\ unit[i].pc = "chat"
    /\ unit' = [unit EXCEPT ![i] = ChatIteration(@, i, outcome)]
    /\ UNCHANGED <<data, chat, observe,
                   sameAsFilePath, dirExists, run, pc, port,
                   probed, api_base_pool, outExists, outFile, existedAtStart,
                   linesAtStart, start_idx, futures, exitCode>>

\* Lines 148-167: the completion call, its finally clause and the answer.
CompletionCall(i, outcome) ==
    /\ Running
    /\ unit[i].pc = "completion"
    /\ unit' = [unit EXCEPT ![i] =
                  LET u == Logged(@, "completion", outcome.kind,
                                  ReplyText(outcome), @.prompt)
                  IN  IF ~CompletionAccepted(outcome)
                      THEN [u EXCEPT !.pc = "done", !.calls = @ + 1,
                                     !.closed = TRUE]
                      ELSE [u EXCEPT !.pc = "write", !.calls = @ + 1,
                                     !.closed = TRUE,
                                     !.pending = WriteCalls(TextRecord(i, run,
                                       u.prompt \o Strip(outcome.text)))]]
    /\ UNCHANGED <<data, chat, observe,
                   sameAsFilePath, dirExists, run, pc, port,
                   probed, api_base_pool, outExists, outFile, existedAtStart,
                   linesAtStart, start_idx, futures, exitCode>>

\* Lines 133-134 and 168-169: open(args.output_path, "a") and one write of
\* the text to the file; the file is closed when nothing is left to write.
UnitWrite(i) ==
    /\ Running
    /\ unit[i].pc = "write"
    /\ IF ~dirExists
       THEN /\ unit' = [unit EXCEPT ![i].pc = "raised"]
            /\ UNCHANGED <<outExists, outFile>>
       ELSE /\ outExists' = TRUE
            /\ outFile' = Appended(outFile, Head(unit[i].pending))
            /\ unit' = [unit EXCEPT ![i] =
                          IF Len(@.pending) = 1
                          THEN [@ EXCEPT !.pending = <<>>, !.pc = "done",
                                         !.wrote = @ + 1]
                          ELSE [@ EXCEPT !.pending = Tail(@)]]
    /\ UNCHANGED <<data, chat, observe,
                   sameAsFilePath, dirExists, run, pc, port,
                   probed, api_base_pool, existedAtStart, linesAtStart, start_idx, futures,
                   exitCode>>

(* -------------------------- process lifetime --------------------------- *)
\* The process is terminated from outside: every thread stops where it is.
Kill ==
    /\ pc \in {"probe", "resume", "submit", "wait"}
    /\ pc' = "killed"
    /\ UNCHANGED <<data, chat, observe,
                   sameAsFilePath, dirExists, run, port, probed,
                   api_base_pool, outExists, outFile, existedAtStart,
                   linesAtStart, start_idx, futures, unit, exitCode>>

\* The script is started again with the same arguments.
NextRun ==
    /\ pc \in {"exited", "killed"}
    /\ run < MaxRuns
    /\ run' = run + 1
    /\ pc' = "probe"
    /\ port' = FirstPort
    /\ probed' = <<>>
    /\ api_base_pool' = <<>>
    /\ existedAtStart' = outExists
    /\ linesAtStart' = LineCount(outFile)
    /\ start_idx' = 0
    /\ futures' = <<>>
    /\ unit' = [i \in Indices |-> NoUnit]
    /\ exitCode' = 0
    /\ UNCHANGED <<data, chat, observe,
                   sameAsFilePath, dirExists, outExists, outFile>>

Next ==
    \/ \E outcome \in {"fail", "empty", "models"} : Probe(outcome)
    \/ Resume
    \/ Submit
    \/ Wait
    \/ \E i \in Indices : UnitStart(i)
    \/ \E i \in Indices, outcome \in ListOutcomes : ListModels(i, outcome)
    \/ \E i \in Indices, outcome \in ChatOutcomes : ChatTurn(i, outcome)
    \/ \E i \in Indices, outcome \in CompletionOutcomes :
           CompletionCall(i, outcome)
    \/ \E i \in Indices : UnitWrite(i)
    \/ Kill
    \/ NextRun

Spec == Init /\ [][Next]_vars

SpecUnit == UnitInit /\ [][Next]_vars

SpecPair == PairInit /\ [][Next]_vars

\* The steps of the main thread and of the worker thread running unit i.
MainStep ==
    \/ \E outcome \in {"fail", "empty", "models"} : Probe(outcome)
    \/ Resume
    \/ Submit
    \/ Wait

UnitStep(i) ==
    \/ UnitStart(i)
    \/ \E outcome \in ListOutcomes : ListModels(i, outcome)
    \/ \E outcome \in ChatOutcomes : ChatTurn(i, outcome)
    \/ \E outcome \in CompletionOutcomes : CompletionCall(i, outcome)
    \/ UnitWrite(i)

\* Every thread that can take a step is scheduled, and every call to a
\* backend returns or raises. Nothing says the process is killed or started
\* again.
Fairness ==
    /\ WF_vars(MainStep)
    /\ \A i \in Indices : WF_vars(UnitStep(i))

\* A first run on an output path that does not exist yet, in a directory
\* that does.
FairInit ==
    /\ Init
    /\ ~sameAsFilePath
    /\ dirExists
    /\ ~outExists

SpecFair == FairInit /\ [][Next]_vars /\ Fairness

(* ------------------------------ claims --------------------------------- *)
\* Positions of the output file that hold a record of the Sample at index i.
RecordsOf(i) ==
    {n \in 1..Len(outFile) : ~IsNL(outFile[n]) /\ outFile[n].src = i}

IsPrefix(a, b) == Len(a) <= Len(b) /\ SubSeq(b, 1, Len(a)) = a

Wrote == {i \in Indices : unit[i].wrote > 0}

AfterResume == pc \in {"submit", "wait", "exited"}

\* C1: over any sequence of runs on the same input and output file, no
\* Sample has more than one record in the output file.
C1_NoDuplicateRecord ==
    \A i \in Indices : Cardinality(RecordsOf(i)) <= 1

\* C2: once a run has computed its resume offset, every Sample below the
\* offset has a record in the output file.
C2_NoLossOnResume ==
    AfterResume => \A i \in Indices : i < start_idx => RecordsOf(i) # {}

\* C3: the output file is only ever extended, and its line count is the
\* line count at startup plus the number of units of this run that have
\* completed their append.
C3_AppendOnlyLineCount ==
    /\ [](LineCount(outFile) = linesAtStart + Cardinality(Wrote))
    /\ [][IsPrefix(outFile, outFile')]_vars

C3_Witness ==
    /\ run = 2
    /\ linesAtStart >= 1
    /\ Wrote # {}

\* C4: the resume offset is the line count of the output file when it
\* existed at startup and 0 when it did not; when every Sample already had
\* a record at startup nothing is submitted.
C4_ResumeOffset ==
    /\ AfterResume =>
         start_idx = (IF existedAtStart THEN linesAtStart ELSE 0)
    /\ (\A i \in Indices :
           \E n \in RecordsOf(i) : outFile[n].byRun < run) => futures = <<>>

C4_Witness ==
    /\ pc = "exited"
    /\ existedAtStart
    /\ start_idx = NumSamples
    /\ \A i \in Indices : \E n \in RecordsOf(i) : outFile[n].byRun < run
    /\ futures = <<>>

\* C5: under every interleaving of the units, every line of the output file
\* is one whole record followed by its newline.
C5_WholeLines ==
    /\ Len(outFile) % 2 = 0
    /\ \A n \in 1..Len(outFile) :
          IF n % 2 = 1 THEN ~IsNL(outFile[n]) ELSE IsNL(outFile[n])

C5_Witness ==
    \E i, j \in Indices :
        /\ i < j
        /\ unit[i].pc = "write"
        /\ unit[j].wrote > 0
        /\ Len(outFile) >= 2

\* C6: with an empty live pool no unit is ever submitted, and the process
\* exits with a non-zero code.
C6_EmptyPoolFailsFast ==
    (AfterResume /\ api_base_pool = <<>>) =>
        /\ futures = <<>>
        /\ \A i \in Indices : unit[i].pc = "none"
        /\ pc = "exited" => exitCode # 0

\* C7: the unit submitted n-th in a run works on the Sample at index
\* start_idx + n - 1 and uses the backend pool[index mod |pool|].
C7_BackendAssignment ==
    \A n \in 1..Len(futures) :
        LET i == futures[n]
        IN  (unit[i].pc \notin {"none", "queued"} /\ api_base_pool # <<>>) =>
              /\ i = start_idx + n - 1
              /\ unit[i].base_url =
                     api_base_pool[(i % Len(api_base_pool)) + 1]

C7_Witness ==
    /\ start_idx = 1
    /\ api_base_pool = <<FirstPort, FirstPort + 1>>
    /\ unit[1].pc = "done"
    /\ unit[1].base_url = FirstPort + 1

\* The ports whose probe returned models, in probing order from port p.
RECURSIVE Live(_, _)
Live(outcomes, p) ==
    IF outcomes = <<>> THEN <<>>
    ELSE (IF Head(outcomes) = "models" THEN <<p>> ELSE <<>>)
         \o Live(Tail(outcomes), p + 1)

\* C8: the live pool holds exactly the probed addresses whose probe returned
\* at least one model, in probing order, and every address is probed
\* whatever the earlier probes did.
C8_BackendRegistry ==
    /\ api_base_pool = Live(probed, FirstPort)
    /\ AfterResume \/ pc = "resume" => Len(probed) = EndPort - FirstPort

C8_Witness ==
    /\ pc = "resume"
    /\ probed = <<"fail", "models">>
    /\ api_base_pool = <<FirstPort + 1>>

\* C9: a run submits one unit for each index from the resume offset to the
\* end of the input, in ascending order, none below the offset, and exits
\* only when every submitted unit has finished.
C9_CoverageAndBarrier ==
    /\ \A n \in 1..Len(futures) : futures[n] = start_idx + n - 1
    /\ \A i \in Indices :
          unit[i].pc # "none" <=> \E n \in 1..Len(futures) : futures[n] = i
    /\ pc \in {"wait", "exited"} =>
          Len(futures) = (IF Len(data) > start_idx
                          THEN Len(data) - start_idx ELSE 0)
    /\ pc = "exited" => \A n \in 1..Len(futures) : Finished(unit[futures[n]])

C9_Witness ==
    /\ pc = "exited"
    /\ start_idx = 1
    /\ Len(futures) = NumSamples - 1
    /\ unit[0].pc = "none"

\* The record a unit that has written holds in its own state.
OwnRecord(i, rec) ==
    IF chat
    THEN rec = ChatRecord(i, run, unit[i].output_conv)
    ELSE /\ rec.kind = "text"
         /\ IsPrefix(unit[i].prompt, rec.text)

\* Unit i stops in this step without having appended.
StopsWithoutRecord(i) ==
    /\ ~Finished(unit[i])
    /\ Finished(unit'[i])
    /\ unit'[i].wrote = 0

\* C10: a unit that fails changes nothing but its own state, the process
\* still waits for every unit and exits with code 0, and each record written
\* in a run is the one its own unit built.
C10_UnitIsolation ==
    /\ [](pc = "exited" =>
            /\ exitCode = 0
            /\ \A n \in 1..Len(futures) : Finished(unit[futures[n]]))
    /\ [](\A n \in 1..Len(outFile) :
            (~IsNL(outFile[n]) /\ outFile[n].byRun = run) =>
                /\ unit[outFile[n].src].wrote > 0
                /\ OwnRecord(outFile[n].src, outFile[n]))
    /\ [][\A i \in Indices :
            StopsWithoutRecord(i) =>
                /\ pc' = pc
                /\ futures' = futures
                /\ outFile' = outFile
                /\ \A j \in Indices \ {i} : unit'[j] = unit[j]]_vars

C10_Witness ==
    /\ pc = "exited"
    /\ exitCode = 0
    /\ \E i, j \in Indices :
          /\ unit[i].pc = "raised"
          /\ unit[j].wrote > 0

\* C11: the units executing generate_data at the same time never outnumber
\* the worker pool; the other submitted units stay queued.
C11_ConcurrencyBound ==
    /\ Cardinality({i \in Indices : Executing(unit[i])}) <= NumThreads
    /\ \A i \in Indices :
          Executing(unit[i]) => \A j \in Indices : j < i => unit[j].pc # "queued"

C11_Witness ==
    /\ Cardinality({i \in Indices : Executing(unit[i])}) = NumThreads
    /\ \E i \in Indices : unit[i].pc = "queued"

\* C12: a unit that has returned has closed its client, on every exit path
\* of both modes.
C12_ClientClosed ==
    \A i \in Indices : unit[i].pc = "done" => unit[i].closed

(* --------------------- what a unit was given and saw ------------------- *)
Sample(i) == data[i + 1]

HasSystem(ms) == ms # <<>> /\ ms[1]["from"] = "system"
SystemPart(ms) == IF HasSystem(ms) THEN <<ms[1]>> ELSE <<>>
Rest(ms) == IF HasSystem(ms) THEN Tail(ms) ELSE ms

IsChatCall(e) == e.call = "chat"
ChatLog(i) == SelectSeq(unit[i].seen, IsChatCall)
IsCompletionCall(e) == e.call = "completion"
CompletionLog(i) == SelectSeq(unit[i].seen, IsCompletionCall)

ListedOk(i) ==
    /\ unit[i].seen # <<>>
    /\ unit[i].seen[1].call = "list"
    /\ unit[i].seen[1].kind = "ok"

LoopOver(i) == unit[i].pc \in {"write", "done", "raised"}

\* t is raw without its leading and trailing blanks.
IsTrimOf(t, raw) ==
    \E a \in 0..Len(raw) : \E b \in a..Len(raw) :
        /\ t = SubSeq(raw, a + 1, b)
        /\ \A n \in 1..a : raw[n] = " "
        /\ \A n \in (b + 1)..Len(raw) : raw[n] = " "
        /\ t # <<>> => (t[1] # " " /\ t[Len(t)] # " ")

\* The records of Sample i that this run has put in the output file.
RunRecords(i) ==
    {n \in RecordsOf(i) : outFile[n].byRun = run}

\* conv is the leading system turn of Sample i, if any, then its first n
\* user turns, each followed by a gpt turn holding the trimmed n-th answer.
HoldsPairs(conv, i, n) ==
    LET sys == SystemPart(Sample(i))
        rest == Rest(Sample(i))
        log == ChatLog(i)
    IN  /\ Len(conv) = Len(sys) + 2 * n
        /\ \A j \in 1..Len(sys) : conv[j] = sys[j]
        /\ \A j \in 1..n :
              /\ conv[Len(sys) + 2 * j - 1] = rest[2 * j - 1]
              /\ DOMAIN conv[Len(sys) + 2 * j] = {"from", "value"}
              /\ conv[Len(sys) + 2 * j]["from"] = "gpt"
              /\ IsTrimOf(conv[Len(sys) + 2 * j]["value"], log[j].text)

\* C13: when the answer to the k-th user turn is cut off by the length limit
\* after k-1 normal answers, the unit has made k calls and its record is the
\* leading system turn, if any, and the first k-1 pairs, nothing else.
C13_ChatTruncation ==
    \A i \in Indices :
        LET log == ChatLog(i)
            k == Len(log)
        IN  (chat /\ LoopOver(i) /\ k >= 1 /\ log[k].kind = "length") =>
              /\ \A j \in 1..(k - 1) : log[j].kind = "stop"
              /\ unit[i].calls = k
              /\ HoldsPairs(unit[i].output_conv, i, k - 1)
              /\ \A n \in RunRecords(i) :
                    HoldsPairs(outFile[n].conversations, i, k - 1)

C13_Witness ==
    \E i \in Indices :
        /\ chat
        /\ unit[i].wrote > 0
        /\ HasSystem(Sample(i))
        /\ Len(ChatLog(i)) = 2
        /\ ChatLog(i)[2].kind = "length"
        /\ ChatLog(i)[2].text # <<>>
        /\ RunRecords(i) # {}

\* C14: in chat mode a unit whose call for the first user turn fails writes
\* no line, with or without a leading system turn.
C14_FirstTurnFailsNoLine ==
    \A i \in Indices :
        (chat /\ LoopOver(i) /\ Len(ChatLog(i)) = 1
              /\ ChatLog(i)[1].kind = "error") =>
            /\ unit[i].pc = "done"
            /\ unit[i].wrote = 0
            /\ RunRecords(i) = {}

\* Every answer the unit has seen so far is a normal one.
AllNormal(i) == \A j \in 1..Len(ChatLog(i)) : ChatLog(i)[j].kind = "stop"

\* The next expected-user turn of Sample i is not a user turn.
WrongSpeakerNext(i) ==
    LET rest == Rest(Sample(i))
        k == Len(ChatLog(i))
    IN  /\ k < UserSlots(rest)
        /\ rest[2 * k + 1]["from"] # "human"

\* C15: a unit that meets a wrong speaker at an expected-user position
\* returns without a record, whatever it generated before, and makes no
\* further call.
C15_WrongSpeakerNoRecord ==
    \A i \in Indices :
        (chat /\ ListedOk(i) /\ LoopOver(i) /\ AllNormal(i)
              /\ (HasSystem(Sample(i)) => HasKey(Sample(i)[1], "text"))
              /\ WrongSpeakerNext(i)) =>
            /\ unit[i].pc = "done"
            /\ unit[i].wrote = 0
            /\ unit[i].pending = <<>>
            /\ unit[i].calls = Len(ChatLog(i))
            /\ RunRecords(i) = {}

C15_Witness ==
    \E i \in Indices :
        /\ chat
        /\ unit[i].pc = "done"
        /\ Len(ChatLog(i)) = 1
        /\ AllNormal(i)
        /\ WrongSpeakerNext(i)
        /\ unit[i].output_conv # <<>>

\* C16: when the call for user turn k fails, the unit has made k calls, its
\* record holds the pairs of turns 1..k-1, and once it has returned the
\* output file holds exactly one record of it if the record has a turn.
C16_CallFailureKeepsPairs ==
    \A i \in Indices :
        LET log == ChatLog(i)
            k == Len(log)
        IN  (chat /\ LoopOver(i) /\ k >= 1 /\ log[k].kind = "error") =>
              /\ unit[i].calls = k
              /\ HoldsPairs(unit[i].output_conv, i, k - 1)
              /\ unit[i].pc # "raised"
              /\ unit[i].pc = "done" =>
                    IF unit[i].output_conv = <<>>
                    THEN RunRecords(i) = {}
                    ELSE /\ Cardinality(RunRecords(i)) = 1
                         /\ \A n \in RunRecords(i) :
                               outFile[n].conversations = unit[i].output_conv

C16_Witness ==
    \E i \in Indices :
        /\ chat
        /\ unit[i].pc = "done"
        /\ Len(ChatLog(i)) = 2
        /\ ChatLog(i)[2].kind = "error"
        /\ Cardinality(RunRecords(i)) = 1
        /\ Len(unit[i].output_conv) = 2

\* The prompt of completion mode for a Sample that has the turns it reads.
Promptable(ms) ==
    /\ ms # <<>>
    /\ HasSystem(ms) => (HasKey(ms[1], "text") /\ Len(ms) >= 2)
    /\ HasKey(Rest(ms)[1], "value")
PromptOf(ms) ==
    GetPrompt(IF HasSystem(ms) THEN ms[1]["text"] ELSE DefaultSystemMessage,
              Rest(ms)[1]["value"])

\* C17: in completion mode a unit makes one completion call, with the
\* rendered prompt; when the call fails nothing is written; when it returns,
\* cut off by the length limit or not, the one record written is the prompt
\* followed by the trimmed completion.
C17_CompletionMode ==
    \A i \in Indices :
        LET log == CompletionLog(i)
        IN  (~chat /\ ListedOk(i) /\ Finished(unit[i])) =>
              /\ Len(log) = (IF Promptable(Sample(i)) THEN 1 ELSE 0)
              /\ unit[i].calls = Len(log)
              /\ Len(log) = 1 =>
                    /\ log[1].sent = PromptOf(Sample(i))
                    /\ unit[i].pc = "done"
                    /\ IF log[1].kind = "error"
                       THEN RunRecords(i) = {}
                       ELSE /\ Cardinality(RunRecords(i)) = 1
                            /\ \A n \in RunRecords(i) :
                                  LET text == outFile[n].text
                                      p == PromptOf(Sample(i))
                                  IN  /\ IsPrefix(p, text)
                                      /\ IsTrimOf(SubSeq(text, Len(p) + 1,
                                                         Len(text)),
                                                  log[1].text)

C17_Witness ==
    \E i \in Indices :
        /\ ~chat
        /\ unit[i].pc = "done"
        /\ Len(CompletionLog(i)) = 1
        /\ CompletionLog(i)[1].kind = "length"
        /\ CompletionLog(i)[1].text = <<" ", "a", " ">>
        /\ HasSystem(Sample(i))
        /\ Cardinality(RunRecords(i)) = 1

\* C18: a unit whose model listing fails returns at once: no generation
\* call, no second listing, no record, no exception, and the process still
\* exits with code 0.
C18_ListingFailure ==
    \A i \in Indices :
        (unit[i].seen # <<>> /\ unit[i].seen[1].call = "list"
                             /\ unit[i].seen[1].kind = "error") =>
            /\ unit[i].pc = "done"
            /\ Len(unit[i].seen) = 1
            /\ unit[i].calls = 0
            /\ unit[i].wrote = 0
            /\ unit[i].pending = <<>>
            /\ RunRecords(i) = {}
            /\ pc = "exited" => exitCode = 0

C18_Witness ==
    /\ pc = "exited"
    /\ \E i \in Indices :
          /\ unit[i].pc = "done"
          /\ Len(unit[i].seen) = 1
          /\ unit[i].seen[1].kind = "error"

\* C19: when the output path did not exist at startup, the run starts at
\* offset 0 and the parent directory of the output path exists before any
\* unit appends.
C19_OutputPathReady ==
    (AfterResume /\ ~existedAtStart) =>
        /\ start_idx = 0
        /\ dirExists

\* The Sample has the turns chat mode reads, with the speakers it expects.
WellFormed(ms) ==
    /\ HasSystem(ms) => HasKey(ms[1], "text")
    /\ \A k \in 1..UserSlots(Rest(ms)) :
          /\ Rest(ms)[2 * k - 1]["from"] = "human"
          /\ HasKey(Rest(ms)[2 * k - 1], "value")

\* ctx is what chat mode sends for the j-th user turn of Sample i: the
\* system turn, if any, the earlier user turns each with the trimmed answer
\* generated for it, and the j-th user turn.
IsContext(ctx, i, j) ==
    LET sys == SystemPart(Sample(i))
        rest == Rest(Sample(i))
        log == ChatLog(i)
    IN  /\ Len(ctx) = Len(sys) + 2 * j - 1
        /\ \A n \in 1..Len(sys) :
              ctx[n] = [role |-> "system", content |-> sys[n]["text"]]
        /\ \A m \in 1..j :
              ctx[Len(sys) + 2 * m - 1] =
                  [role |-> "user", content |-> rest[2 * m - 1]["value"]]
        /\ \A m \in 1..(j - 1) :
              /\ ctx[Len(sys) + 2 * m].role = "assistant"
              /\ IsTrimOf(ctx[Len(sys) + 2 * m].content, log[m].text)

\* C20: every chat call carries the context built from the generated
\* answers, and when every call of a well-formed Sample completes normally
\* the record is the system turn, if any, and every user turn followed by a
\* gpt turn with the trimmed generated text.
C20_NormalReplay ==
    \A i \in Indices :
        /\ chat => \A j \in 1..Len(ChatLog(i)) :
                      IsContext(ChatLog(i)[j].sent, i, j)
        /\ (chat /\ ListedOk(i) /\ LoopOver(i) /\ AllNormal(i)
                 /\ WellFormed(Sample(i))) =>
              LET n == UserSlots(Rest(Sample(i)))
              IN  /\ Len(ChatLog(i)) = n
                  /\ HoldsPairs(unit[i].output_conv, i, n)
                  /\ \A r \in RunRecords(i) :
                        HoldsPairs(outFile[r].conversations, i, n)
                  /\ (unit[i].pc = "done" /\ unit[i].output_conv # <<>>) =>
                        Cardinality(RunRecords(i)) = 1

C20_Witness ==
    \E i \in Indices :
        /\ chat
        /\ unit[i].pc = "done"
        /\ HasSystem(Sample(i))
        /\ Len(ChatLog(i)) = 2
        /\ AllNormal(i)
        /\ ChatLog(i)[1].text = <<" ", "a", " ">>
        /\ Len(unit[i].output_conv) = 5
        /\ Cardinality(RunRecords(i)) = 1

\* The chat loop of unit i is over, and not by a wrong speaker or a missing
\* key: it ran out of user turns, or its last answer was cut off or failed.
LoopEnded(i) ==
    /\ chat
    /\ ListedOk(i)
    /\ unit[i].pc \in {"write", "done"}
    /\ ~(AllNormal(i) /\ WrongSpeakerNext(i))

\* C21: in chat mode, once the loop has ended normally, by truncation or by
\* a failed call, the unit appends exactly one record, holding its output
\* record, when that record has at least one turn, and nothing otherwise.
C21_ChatTermination ==
    \A i \in Indices :
        LoopEnded(i) =>
            /\ unit[i].pc = "write" =>
                  /\ unit[i].output_conv # <<>>
                  /\ RunRecords(i) = {}
            /\ unit[i].pc = "done" =>
                  IF unit[i].output_conv = <<>>
                  THEN /\ RunRecords(i) = {}
                       /\ unit[i].wrote = 0
                  ELSE /\ Cardinality(RunRecords(i)) = 1
                       /\ unit[i].wrote = 1
                       /\ \A n \in RunRecords(i) :
                             /\ outFile[n].kind = "chat"
                             /\ outFile[n].conversations = unit[i].output_conv
                             /\ IsNL(outFile[n + 1])

C21_Witness ==
    \E i \in Indices :
        /\ LoopEnded(i)
        /\ unit[i].pc = "done"
        /\ Len(ChatLog(i)) = 2
        /\ ChatLog(i)[2].kind = "length"
        /\ Len(unit[i].output_conv) = 2
        /\ Cardinality(RunRecords(i)) = 1

\* A unit whose loop ended with an empty output record has written nothing.
C21_WitnessEmpty ==
    \E i \in Indices :
        /\ LoopEnded(i)
        /\ unit[i].pc = "done"
        /\ ChatLog(i) # <<>>
        /\ unit[i].output_conv = <<>>

\* C22: within one run a unit appends at most one record, in either mode
\* and however it ends, and what is in the output file is never changed
\* afterwards.
C22_SingleHandOff ==
    /\ [](\A i \in Indices :
            /\ unit[i].wrote <= 1
            /\ Cardinality(RunRecords(i)) <= 1
            /\ unit[i].wrote = 1 => unit[i].pending = <<>>
            /\ RunRecords(i) # {} => unit[i].pc \in {"write", "done"})
    /\ [][/\ Len(outFile') >= Len(outFile)
          /\ \A n \in 1..Len(outFile) : outFile'[n] = outFile[n]
          /\ \A i \in Indices :
                unit[i].wrote = 1 =>
                    (unit'[i] = unit[i] \/ unit'[i] = NoUnit)]_vars

C22_Witness ==
    \E i, j \in Indices :
        /\ i # j
        /\ unit[i].pc = "done"
        /\ unit[i].wrote = 1
        /\ unit[j].pc = "done"
        /\ unit[j].wrote = 1
        /\ pc = "exited"

\* The turns of a Sample that come from the user.
UserTurns(ms) == {j \in 1..Len(ms) : ms[j]["from"] = "human"}

\* conv is the leading system turn of Sample i, if any, followed by n whole
\* pairs: the n first user turns of the Sample, in input order, each with a
\* gpt turn after it.
IsPairs(conv, i, n) ==
    LET sys == SystemPart(Sample(i))
        rest == Rest(Sample(i))
    IN  /\ Len(conv) = Len(sys) + 2 * n
        /\ \A j \in 1..Len(sys) : conv[j] = sys[j]
        /\ n <= Cardinality(UserTurns(Sample(i)))
        /\ \A j \in 1..n :
              /\ 2 * j - 1 <= Len(rest)
              /\ conv[Len(sys) + 2 * j - 1] = rest[2 * j - 1]
              /\ conv[Len(sys) + 2 * j - 1]["from"] = "human"
              /\ DOMAIN conv[Len(sys) + 2 * j] = {"from", "value"}
              /\ conv[Len(sys) + 2 * j]["from"] = "gpt"

\* C23: every record written in chat mode is the leading system turn, if
\* any, followed by whole (user, assistant) pairs in input order, never more
\* pairs than the Sample has user turns and never a user turn left without
\* its generated answer.
C23_RecordShape ==
    \A i \in Indices : \A r \in RunRecords(i) :
        chat =>
            /\ outFile[r].kind = "chat"
            /\ \E n \in 0..Len(Sample(i)) :
                  IsPairs(outFile[r].conversations, i, n)
            /\ outFile[r].conversations # <<>> =>
                  outFile[r].conversations[Len(outFile[r].conversations)]["from"]
                      # "human"

C23_Witness ==
    \E i \in Indices : \E r \in RunRecords(i) :
        /\ chat
        /\ HasSystem(Sample(i))
        /\ Cardinality(UserTurns(Sample(i))) = 2
        /\ IsPairs(outFile[r].conversations, i, 1)
        /\ ChatLog(i)[2].kind = "error"

\* max(0, N - startOffset)
MaxAppends == IF Len(data) > start_idx THEN Len(data) - start_idx ELSE 0

\* Units of this run that have made a generation call.
Called == {i \in Indices : unit[i].calls > 0}

\* C24: a run appends at most max(0, N - start_idx) lines; when the output
\* file already had N or more lines at startup, the run submits no unit,
\* makes no generation call and leaves the output file as it was.
C24_AppendBound ==
    AfterResume =>
        /\ LineCount(outFile) - linesAtStart <= MaxAppends
        /\ Cardinality(Wrote) <= MaxAppends
        /\ Len(futures) <= MaxAppends
        /\ (existedAtStart /\ linesAtStart >= Len(data)) =>
              /\ futures = <<>>
              /\ \A i \in Indices : unit[i] = NoUnit
              /\ Called = {}
              /\ LineCount(outFile) = linesAtStart
              /\ \A n \in 1..Len(outFile) :
                    ~IsNL(outFile[n]) => outFile[n].byRun < run

C24_Witness ==
    /\ pc = "exited"
    /\ run = 2
    /\ start_idx = 1
    /\ MaxAppends = NumSamples - 1
    /\ LineCount(outFile) - linesAtStart = MaxAppends

\* A run that found a line for every Sample has exited without a unit.
C24_WitnessFull ==
    /\ pc = "exited"
    /\ run = 2
    /\ linesAtStart = NumSamples
    /\ futures = <<>>
    /\ Called = {}

\* The leading system turn of a Sample, if any, and the turn after it.
HeadTurns(ms) ==
    SubSeq(ms, 1, IF HasSystem(ms)
                  THEN (IF Len(ms) >= 2 THEN 2 ELSE 1)
                  ELSE (IF Len(ms) >= 1 THEN 1 ELSE 0))

\* Unit i has rendered its completion prompt.
HasPrompt(i) == ~chat /\ unit[i].pc \in {"completion", "write", "done"}
                      /\ ListedOk(i)

\* C26: in completion mode two Samples that agree on the leading system
\* turn and the turn after it get the same prompt, whatever their later
\* turns, and for the same answer of the backend the same record text.
C26_PromptDependsOnHead ==
    \A i, j \in Indices :
        (HasPrompt(i) /\ HasPrompt(j)
           /\ HeadTurns(Sample(i)) = HeadTurns(Sample(j))) =>
            /\ unit[i].prompt = unit[j].prompt
            /\ \A a \in 1..Len(CompletionLog(i)) :
               \A b \in 1..Len(CompletionLog(j)) :
                  /\ CompletionLog(i)[a].sent = CompletionLog(j)[b].sent
                  /\ CompletionLog(i)[a].text = CompletionLog(j)[b].text =>
                        \A r \in RunRecords(i) : \A q \in RunRecords(j) :
                            outFile[r].text = outFile[q].text

C26_Witness ==
    \E i, j \in Indices :
        /\ i # j
        /\ HeadTurns(Sample(i)) = HeadTurns(Sample(j))
        /\ HasSystem(Sample(i))
        /\ Sample(i) # Sample(j)
        /\ ~chat
        /\ unit[i].pc = "done"
        /\ unit[j].pc = "done"
        /\ RunRecords(i) # {}
        /\ RunRecords(j) # {}
        /\ CompletionLog(i)[1].text = CompletionLog(j)[1].text

\* This run of the script is over.
Ended == pc \in {"exited", "killed"}

\* C25: a unit makes at most one chat call per user turn of its Sample, or
\* at most one completion call, every call of a unit still in its loop is
\* for the next turn (a call is never issued again), and when every call
\* returns or raises the run ends, with every submitted unit finished unless
\* the process was killed.
C25_NoRetryTermination ==
    /\ [](\A i \in Indices :
            /\ chat => /\ unit[i].calls <= Cardinality(UserTurns(Sample(i)))
                       /\ unit[i].calls <= unit[i].k + 1
                       /\ unit[i].calls = unit[i].k + 1 => LoopOver(i)
            /\ ~chat => /\ unit[i].calls <= 1
                        /\ unit[i].calls = 1 => LoopOver(i))
    /\ [][\A i \in Indices :
            unit'[i].calls > unit[i].calls =>
                /\ unit'[i].calls = unit[i].calls + 1
                /\ unit'[i].pc = "chat" => unit'[i].k = unit[i].k + 1]_vars
    /\ [](pc = "exited" =>
            \A i \in Indices : unit[i].pc = "none" \/ Finished(unit[i]))
    /\ (~Ended) ~> Ended

C25_Witness ==
    /\ pc = "exited"
    /\ chat
    /\ \E i, j \in Indices :
          /\ unit[i].calls = 2
          /\ unit[i].k = 1
          /\ unit[i].pc = "done"
          /\ unit[j].pc = "done"
          /\ unit[j].calls = 1
          /\ unit[j].k = 0

====
